---- MODULE Spec2Model ----
(***************************************************************************)
(* Model of the merge engine of "Sorting data of files":                   *)
(*   functions.py     convert, sort_alphanumeric, order_record             *)
(*   data_clients.py  ProcessData, WriteData                               *)
(*   file_generators.py  FileGeneratorFactory, TSVFileGenerator            *)
(*   main.py          process_headers, process_data                        *)
(* A column name is a sequence of one-character strings, a cell is a       *)
(* one-character string or None, a record is a sequence of cells.          *)
(***************************************************************************)
EXTENDS Integers, Sequences, FiniteSets, TLC

\* ------------------------------------------------------------------ bounds
MaxSources == 2      \* files found in the chosen directory
MaxRecords == 3      \* records in all the files of a run
FlushThreshold == 1  \* stands for the 52000 of data_clients.py:246
MaxStrings == 4      \* length of the lists given to sort_alphanumeric alone
MaxColumns == 3      \* columns and cells given to order_record alone

\* ------------------------------------------------------ characters, values
Min(S) == CHOOSE x \in S : \A y \in S : x <= y
Max(S) == CHOOSE x \in S : \A y \in S : x >= y

RECURSIVE Sum(_)
Sum(s) == IF s = <<>> THEN 0 ELSE Head(s) + Sum(Tail(s))

Digits == {"0", "1", "2", "3", "4", "5", "6", "7", "8", "9"}

\* ord() of the characters that occur in the model
Ord(c) ==
    CASE c = "0" -> 48 [] c = "1" -> 49 [] c = "2" -> 50 [] c = "3" -> 51
      [] c = "4" -> 52 [] c = "5" -> 53 [] c = "6" -> 54 [] c = "7" -> 55
      [] c = "8" -> 56 [] c = "9" -> 57
      [] c = "D" -> 68 [] c = "M" -> 77
      [] c = "d" -> 100 [] c = "m" -> 109
      [] c = "x" -> 120 [] c = "y" -> 121 [] c = "z" -> 122

\* str.upper() on one character
UpperChar(c) ==
    CASE c = "d" -> "D" [] c = "m" -> "M"
      [] c = "x" -> "X" [] c = "y" -> "Y" [] c = "z" -> "Z"
      [] OTHER -> c

\* Python values that occur as elements of sort keys
None == "None"
PyInt(n) == [t |-> "int", n |-> n, s |-> <<>>]
PyStr(s) == [t |-> "str", n |-> 0, s |-> s]
PyNone == [t |-> "none", n |-> 0, s |-> <<>>]

\* str < str: first differing character by code point, else the shorter
StrLess(a, b) ==
    LET m == IF Len(a) < Len(b) THEN Len(a) ELSE Len(b)
        D == {i \in 1..m : a[i] # b[i]}
    IN  IF D = {} THEN Len(a) < Len(b)
        ELSE Ord(a[Min(D)]) < Ord(b[Min(D)])

\* x < y on two Python values: "T", "F", or "E" for TypeError
PyLess(x, y) ==
    IF x.t = "int" /\ y.t = "int" THEN (IF x.n < y.n THEN "T" ELSE "F")
    ELSE IF x.t = "str" /\ y.t = "str" THEN (IF StrLess(x.s, y.s) THEN "T" ELSE "F")
    ELSE "E"

\* list < list: the first position where the elements are not equal decides;
\* without one the shorter list is the smaller
ListLess(a, b) ==
    LET m == IF Len(a) < Len(b) THEN Len(a) ELSE Len(b)
        D == {i \in 1..m : a[i] # b[i]}
    IN  IF D = {} THEN (IF Len(a) < Len(b) THEN "T" ELSE "F")
        ELSE PyLess(a[Min(D)], b[Min(D)])

\* -------------------------------------------------------------- list.sort
\* CPython's list.sort for fewer than 64 elements: count_run finds the
\* leading run (reversed when strictly descending), binarysort inserts the
\* rest.  The elements are [key, val] pairs, the keys computed beforehand.
\* The result is [ok, seq]; ok = FALSE when a comparison raised TypeError.
Reverse(s) == [i \in 1..Len(s) |-> s[Len(s) + 1 - i]]

RECURSIVE RunAsc(_, _)
RunAsc(s, i) ==   \* last index of the run that has reached index i; 0: error
    IF i = Len(s) THEN i
    ELSE LET c == ListLess(s[i + 1].key, s[i].key)
         IN  IF c = "E" THEN 0 ELSE IF c = "T" THEN i ELSE RunAsc(s, i + 1)

RECURSIVE RunDesc(_, _)
RunDesc(s, i) ==
    IF i = Len(s) THEN i
    ELSE LET c == ListLess(s[i + 1].key, s[i].key)
         IN  IF c = "E" THEN 0 ELSE IF c = "T" THEN RunDesc(s, i + 1) ELSE i

count_run(s) ==   \* [n, descending]; n = 0: a comparison raised
    LET c == ListLess(s[2].key, s[1].key)
    IN  IF c = "E" THEN [n |-> 0, descending |-> FALSE]
        ELSE IF c = "T" THEN [n |-> RunDesc(s, 2), descending |-> TRUE]
        ELSE [n |-> RunAsc(s, 2), descending |-> FALSE]

RECURSIVE BinSearch(_, _, _, _)
BinSearch(s, pivot, l, r) ==   \* insertion index in l..r; 0: a comparison raised
    IF l >= r THEN l
    ELSE LET p == l + ((r - l) \div 2)
             c == ListLess(pivot.key, s[p].key)
         IN  IF c = "E" THEN 0
             ELSE IF c = "T" THEN BinSearch(s, pivot, l, p)
             ELSE BinSearch(s, pivot, p + 1, r)

InsertAt(s, at, from) ==   \* move s[from] to index at <= from
    [i \in 1..Len(s) |->
        IF i < at \/ i > from THEN s[i]
        ELSE IF i = at THEN s[from] ELSE s[i - 1]]

RECURSIVE binarysort(_, _)
binarysort(s, start) ==   \* s[1..start-1] is sorted
    IF start > Len(s) THEN [ok |-> TRUE, seq |-> s]
    ELSE LET at == BinSearch(s, s[start], 1, start)
         IN  IF at = 0 THEN [ok |-> FALSE, seq |-> s]
             ELSE binarysort(InsertAt(s, at, start), start + 1)

listsort(s) ==
    IF Len(s) < 2 THEN [ok |-> TRUE, seq |-> s]
    ELSE LET run == count_run(s)
             head == SubSeq(s, 1, run.n)
             t == IF run.descending
                  THEN Reverse(head) \o SubSeq(s, run.n + 1, Len(s))
                  ELSE s
         IN  IF run.n = 0 THEN [ok |-> FALSE, seq |-> s]
             ELSE binarysort(t, run.n + 1)

Vals(s) == [i \in 1..Len(s) |-> s[i].val]

\* ------------------------------------------------------- functions.py
\* re.split('([0-9]+)', data): the runs of data, alternately without digits
\* and of digits only, the first and the last one without digits (maybe empty)
RECURSIVE SplitRuns(_, _, _, _)
SplitRuns(data, i, cur, inDigits) ==
    IF i > Len(data) THEN (IF inDigits THEN <<cur, <<>>>> ELSE <<cur>>)
    ELSE IF (data[i] \in Digits) = inDigits
         THEN SplitRuns(data, i + 1, Append(cur, data[i]), inDigits)
         ELSE <<cur>> \o SplitRuns(data, i + 1, <<data[i]>>, ~inDigits)

re_split(data) == SplitRuns(data, 1, <<>>, FALSE)

RECURSIVE IntOf(_)
IntOf(run) ==
    IF run = <<>> THEN 0
    ELSE 10 * IntOf(SubSeq(run, 1, Len(run) - 1)) + (Ord(run[Len(run)]) - 48)

\* convert without int(): digit runs stay strings
convert_no_int(element) == PyStr([i \in 1..Len(element) |-> UpperChar(element[i])])

\* convert = lambda element: int(element) if element.isdigit() else element.upper()
convert(element) ==
    IF element # <<>> /\ \A i \in 1..Len(element) : element[i] \in Digits
    THEN PyInt(IntOf(element))
    ELSE PyStr([i \in 1..Len(element) |-> UpperChar(element[i])])

alphanum_key(data) ==
    LET runs == re_split(data) IN [i \in 1..Len(runs) |-> convert(runs[i])]

\* sorted(strings, key=alphanum_key)
sort_alphanumeric(strings) ==
    Vals(listsort([i \in 1..Len(strings) |->
                      [key |-> alphanum_key(strings[i]), val |-> strings[i]]]).seq)


\* order_record with the column name itself as the key
order_record_plain_key(record, messy_file_headers) ==
    LET m == IF Len(record) < Len(messy_file_headers)
             THEN Len(record) ELSE Len(messy_file_headers)
        couple == [i \in 1..m |->
                      [key |-> <<PyStr(messy_file_headers[i])>>, val |-> record[i]]]
    IN  [ok |-> m > 0, seq |-> Vals(listsort(couple).seq)]

\* order_record(record, messy_file_headers); ok = FALSE when the unpacking
\* of zip(*couple) raises ValueError (no pair at all)
order_record(record, messy_file_headers) ==
    LET m == IF Len(record) < Len(messy_file_headers)
             THEN Len(record) ELSE Len(messy_file_headers)
        couple == [i \in 1..m |->
                      [key |-> alphanum_key(messy_file_headers[i]), val |-> record[i]]]
    IN  [ok |-> m > 0, seq |-> Vals(listsort(couple).seq)]

\* ---------------------------------------------------------------- inputs
D1 == <<"D", "1">>
D2 == <<"D", "2">>
D9 == <<"D", "9">>
D10 == <<"D", "1", "0">>
M1 == <<"M", "1">>
M2 == <<"M", "2">>
d1 == <<"d", "1">>

\* the column lists a reader may discover in a file
HeaderChoices ==
    { <<D1, D2, M1>>, <<D1, M1, M2>>, <<D10, d1>>, <<D1, D1>> }

\* the raw records a reader may yield
RowChoices ==
    { <<"1", "2", "x">>, <<"1", "y", "z">>, <<"1", "2">>, <<"2", "1">> }

\* the names given to sort_alphanumeric when it is checked alone
Names == {D1, D2, D9, D10, M1, d1}

\* the cells given to order_record when it is checked alone
Cells == {"1", "2"}

\* the directory the user selects (menu_functions.select_directory)
DefaultDirectory == "../data/"
Directories == {DefaultDirectory, "/srv/in/"}

\* file names as get_files lists them: csv, then json, then xml
AllFileNames == <<"a.csv", "b.csv", "c.json", "d.xml">>

SeqsUpTo(S, n) == UNION {[1..k -> S] : k \in 0..n}

RECURSIVE ListsOf(_)
ListsOf(S) ==   \* list(set): the elements in any order
    IF S = {} THEN {<<>>}
    ELSE UNION {{<<x>> \o l : l \in ListsOf(S \ {x})} : x \in S}

Elems(s) == {s[i] : i \in 1..Len(s)}

\* ------------------------------------------------------------------ state
VARIABLES
    pc,                    \* position in main.process_data / ProcessData.process_data
    path,                  \* the source directory of the run
    dirs,                  \* the result directories created or written to so far
    fs,                    \* content of each output file: its characters
    writes,                \* every write of the run, in order, with its caller
    file_names,            \* ProcessData._file_names
    headers_by_file,       \* ProcessData._headers_by_file
    headers,               \* ProcessData.headers
    file_processing_data,  \* ProcessData.file_processing_data
    sorting,               \* the buffer of process_data
    partial_write,         \* the flag of process_data
    data_tuple,            \* the tuple zip_longest handed out for this round
    index,                 \* position of the inner loop in data_tuple
    exhausted,             \* per source: its generator has raised StopIteration
    rows,                  \* per source: the records pulled from it so far
    round,                 \* number of tuples zip_longest has handed out
    log,                   \* one entry per record appended to the buffer
    returned,              \* what process_data returned
    strings,               \* argument of sort_alphanumeric checked alone
    sorted_strings,        \* its result
    directory,             \* WriteData.directory
    file_name,             \* file_name given to WriteData
    extension,             \* extension given to WriteData
    formats,               \* FileGeneratorFactory._formats
    file_generator,        \* WriteData._file_generator
    signal,                \* the exception raised and not yet handled
    printed,               \* what WriteData.__init__ printed
    raw_record,            \* argument record of order_record checked alone
    raw_columns,           \* its argument messy_file_headers
    ordered_record,        \* its result
    well_formed            \* every line of the files has as many cells as the header

\* the writer (WriteData and the factory it uses)
sink == <<directory, file_name, extension, formats, file_generator, signal, printed>>

\* order_record checked alone
realign == <<raw_record, raw_columns, ordered_record>>

vars == <<pc, path, dirs, fs, writes, file_names, headers_by_file, headers,
          file_processing_data, sorting, partial_write, data_tuple, index,
          exhausted, rows, round, log, returned, strings, sorted_strings,
          sink, realign, well_formed>>

engine == <<file_names, headers_by_file, headers, file_processing_data, sorting,
            partial_write, data_tuple, index, exhausted, rows, round, log, returned>>

\* WriteData.__init__: self.directory = f'{base_directory}result/'
ResultDirectory(base_directory) == <<base_directory, "result/">>

\* FileGenerator.__init__: self.file = f'{directory}{file_name}.{extension}'
GeneratorFile(base_directory) == <<base_directory, "result/", "result", ".", "tsv">>

OutputFiles == {GeneratorFile(d) : d \in Directories}

\* ------------------------------------------------- TSVFileGenerator
\* the content of a file is the sequence of the characters written to it
Tab == "\t"
Newline == "\n"

\* '\t'.join(headers)
RECURSIVE join(_, _)
join(separator, parts) ==
    IF parts = <<>> THEN <<>>
    ELSE IF Len(parts) = 1 THEN parts[1]
    ELSE parts[1] \o <<separator>> \o join(separator, Tail(parts))

\* set_headers: open(self.file, 'w'), the joined headers, a newline
TSV_set_headers(content, names) == join(Tab, names) \o <<Newline>>

\* for value in line: file.write(f"{value if value is not None else ''}\t")
RECURSIVE write_line(_)
write_line(line) ==
    IF line = <<>> THEN <<>>
    ELSE (IF Head(line) = None THEN <<>> ELSE <<Head(line)>>) \o <<Tab>>
         \o write_line(Tail(line))

\* the loop of set_data from records_counter on (counted from 0)
RECURSIVE write_records(_, _)
write_records(data, records_counter) ==
    LET num_records == Len(data) - 1
    IN  IF records_counter > num_records THEN <<>>
        ELSE write_line(data[records_counter + 1])
             \o (IF records_counter < num_records THEN <<Newline>> ELSE <<>>)
             \o write_records(data, records_counter + 1)

\* set_data that ends every record with a newline
TSV_set_data_newline_each(content, data) ==
    LET RECURSIVE all(_)
        all(k) == IF k > Len(data) THEN <<>>
                  ELSE write_line(data[k]) \o <<Newline>> \o all(k + 1)
    IN  content \o all(1)

\* set_data: open(self.file, 'a'), then the loop
TSV_set_data(content, data) == content \o write_records(data, 0)

\* --------------------------------------------- FileGeneratorFactory, WriteData
\* FileGeneratorFactory.__init__: self._formats = {'tsv': TSVFileGenerator}
NewFormats == [e \in {"tsv"} |-> "TSVFileGenerator"]

NoGenerator == [class |-> "unset", file |-> <<>>]

\* the writer main.process_data works with: WriteData(path), built without
\* an exception
WriterOf(base_directory) ==
    [directory |-> ResultDirectory(base_directory),
     file_name |-> "result",
     extension |-> "tsv",
     formats |-> NewFormats,
     file_generator |-> [class |-> "TSVFileGenerator",
                         file |-> GeneratorFile(base_directory)]]

\* the arguments WriteData may be given
FileNames == {"result", "merged", "out"}
Extensions == {"tsv", "TSV", ".tsv", "yaml", "csv", ""}

InitRun ==
    /\ pc = "get_all_headers"
    /\ path \in Directories
    /\ dirs = {}
    /\ fs = [f \in OutputFiles |-> <<>>]
    /\ writes = <<>>
    /\ file_names = <<>>
    /\ headers_by_file = <<>>
    /\ headers = <<>>
    /\ file_processing_data = <<>>
    /\ sorting = <<>>
    /\ partial_write = FALSE
    /\ data_tuple = <<>>
    /\ index = 0
    /\ exhausted = <<>>
    /\ rows = <<>>
    /\ round = 0
    /\ log = <<>>
    /\ returned = [partial_write |-> FALSE, sorting |-> <<>>]
    /\ strings = <<>>
    /\ sorted_strings = <<>>
    /\ directory = WriterOf(path).directory
    /\ file_name = WriterOf(path).file_name
    /\ extension = WriterOf(path).extension
    /\ formats = WriterOf(path).formats
    /\ file_generator = WriterOf(path).file_generator
    /\ signal = "none"
    /\ printed = <<>>
    /\ raw_record = <<>>
    /\ raw_columns = <<>>
    /\ ordered_record = [ok |-> TRUE, seq |-> <<>>]

\* a run on files whose lines all have as many cells as the header line
Init == InitRun /\ well_formed = TRUE

\* a run on files whose lines may have more or fewer cells
InitMalformed == InitRun /\ well_formed = FALSE


\* ------------------------------------------------- ProcessData, schema part
\* get_all_headers: every file found gets a reader (get_files lists only
\* registered extensions); its name and its headers are saved
get_all_headers ==
    /\ pc = "get_all_headers"
    /\ \E n \in 1..MaxSources : \E found \in [1..n -> HeaderChoices] :
          /\ file_names' = SubSeq(AllFileNames, 1, n)
          /\ headers_by_file' = found
    /\ pc' = "sort_headers"
    /\ UNCHANGED <<path, dirs, fs, writes, headers, file_processing_data, sorting,
                   partial_write, data_tuple, index, exhausted, rows, round, log,
                   returned, strings, sorted_strings, sink, realign, well_formed>>

\* sort_headers that keeps the headers of the first file only
set_headers_first_only(by_file) == Elems(by_file[1])

\* the loop of sort_headers: the set of the headers of all files
set_headers(by_file) == UNION {Elems(by_file[i]) : i \in 1..Len(by_file)}

\* sort_headers: self.headers = sort_alphanumeric(list(set_headers))
sort_headers ==
    /\ pc = "sort_headers"
    /\ \E l \in ListsOf(set_headers(headers_by_file)) :
          headers' = sort_alphanumeric(l)
    /\ pc' = "write_headers"
    /\ UNCHANGED <<path, dirs, fs, writes, file_names, headers_by_file,
                   file_processing_data, sorting, partial_write, data_tuple, index,
                   exhausted, rows, round, log, returned, strings, sorted_strings, sink, realign, well_formed>>

\* WriteData.write_headers on the writer of main.process_data (WriteData(path)):
\* create_result_directory, then TSVFileGenerator.set_headers opens with 'w'
write_headers ==
    /\ pc = "write_headers"
    /\ dirs' = dirs \cup {ResultDirectory(path)}
    /\ fs' = [fs EXCEPT ![GeneratorFile(path)] = TSV_set_headers(@, headers)]
    /\ writes' = Append(writes, [file |-> GeneratorFile(path), op |-> "set_headers",
                                 by |-> "main", data |-> headers])
    /\ pc' = "process_data"
    /\ UNCHANGED <<path, engine, strings, sorted_strings, sink, realign, well_formed>>

\* the flag set for every file
rearrangement_always(file_headers) == TRUE

\* make_file_processing_data, the entry of one file
header_comparison(file_headers, all_headers) ==
    [j \in 1..Len(all_headers) |-> all_headers[j] \in Elems(file_headers)]

rearrangement_needed(file_headers) == file_headers # sort_alphanumeric(file_headers)

make_file_processing_data(names, by_file, all_headers) ==
    [f \in Elems(names) |->
        LET i == CHOOSE k \in 1..Len(names) : names[k] = f
        IN  [header_comparison |-> header_comparison(by_file[i], all_headers),
             rearrangement_needed |-> rearrangement_needed(by_file[i])]]

\* process_data up to the loop: the generators are created (nothing is read
\* yet), the per-file metadata is filled in, the buffer is empty
begin_process_data ==
    /\ pc = "process_data"
    /\ file_processing_data' =
          make_file_processing_data(file_names, headers_by_file, headers)
    /\ sorting' = <<>>
    /\ partial_write' = FALSE
    /\ exhausted' = [i \in 1..Len(file_names) |-> FALSE]
    /\ rows' = [i \in 1..Len(file_names) |-> <<>>]
    /\ pc' = "next_tuple"
    /\ UNCHANGED <<path, dirs, fs, writes, file_names, headers_by_file, headers,
                   data_tuple, index, round, log, returned, strings, sorted_strings, sink, realign, well_formed>>


\* ------------------------------------------------ ProcessData, merge part
\* an element of the tuple zip_longest hands out: a record, or the fill
\* value None of an exhausted generator
Fill == [none |-> TRUE, data |-> <<>>]
Data(record) == [none |-> FALSE, data |-> record]

\* what the reader of file i may yield next: a record of its file, with as
\* many cells as its line has (read_record does not look at the headers), or
\* nothing more (read_record ends)
ReaderYields(i) ==
    (IF exhausted[i] THEN {}
     ELSE {Data(r) : r \in {c \in RowChoices :
                                well_formed => Len(c) = Len(headers_by_file[i])}})
    \cup {Fill}

\* next(generated_data) hands out a tuple: every generator that has not
\* ended before is asked for its next record, in file order
next_tuple ==
    /\ pc = "next_tuple"
    /\ \E t \in [1..Len(file_names) -> UNION {ReaderYields(i) : i \in 1..Len(file_names)}] :
          /\ \A i \in 1..Len(file_names) : t[i] \in ReaderYields(i)
          /\ \E i \in 1..Len(file_names) : ~t[i].none
          /\ Sum([i \in 1..Len(file_names) |->
                     Len(rows[i]) + (IF t[i].none THEN 0 ELSE 1)]) <= MaxRecords
          /\ data_tuple' = t
          /\ exhausted' = [i \in 1..Len(file_names) |-> t[i].none]
          /\ rows' = [i \in 1..Len(file_names) |->
                         IF t[i].none THEN rows[i] ELSE Append(rows[i], t[i].data)]
    /\ round' = round + 1
    /\ pc' = "check_flush"
    /\ UNCHANGED <<path, dirs, fs, writes, file_names, headers_by_file, headers,
                   file_processing_data, sorting, partial_write, index, log,
                   returned, strings, sorted_strings, sink, realign, well_formed>>

\* next(generated_data) raises StopIteration: every generator has ended
stop_iteration ==
    /\ pc = "next_tuple"
    /\ exhausted' = [i \in 1..Len(file_names) |-> TRUE]
    /\ pc' = "final_sort"
    /\ UNCHANGED <<path, dirs, fs, writes, file_names, headers_by_file, headers,
                   file_processing_data, sorting, partial_write, data_tuple, index,
                   rows, round, log, returned, strings, sorted_strings, sink, realign, well_formed>>

\* key=lambda data: data[0:k] on a buffered record
slice_key(data, k) ==
    [i \in 1..(IF Len(data) < k THEN Len(data) ELSE k) |->
        IF data[i] = None THEN PyNone ELSE PyStr(<<data[i]>>)]

\* a sort that puts the later of two records with equal keys first
sort_records_last_first(buffer, k) ==
    LET r == listsort([i \in 1..Len(buffer) |->
                          [key |-> slice_key(buffer[Len(buffer) + 1 - i], k),
                           val |-> buffer[Len(buffer) + 1 - i]]])
    IN  [ok |-> r.ok, seq |-> Vals(r.seq)]

\* sorting.sort(key=lambda data: data[0:k])
sort_records(buffer, k) ==
    LET r == listsort([i \in 1..Len(buffer) |->
                          [key |-> slice_key(buffer[i], k), val |-> buffer[i]]])
    IN  [ok |-> r.ok, seq |-> Vals(r.seq)]

\* no threshold test at all
flush_due_never(buffer) == FALSE

\* the threshold test off by one
flush_due_late(buffer) == Len(buffer) > FlushThreshold + 1

\* if len(sorting) > 52000
flush_due(buffer) == Len(buffer) > FlushThreshold

\* the partial write without "sorting = []"
flush_partial_keeps_buffer ==
    /\ pc = "check_flush"
    /\ Len(sorting) > FlushThreshold
    /\ sort_records(sorting, 2).ok
    /\ LET file == GeneratorFile(DefaultDirectory)
           batch == sort_records(sorting, 2).seq
       IN  /\ fs' = [fs EXCEPT ![file] = TSV_set_data(@, batch)]
           /\ writes' = Append(writes, [file |-> file, op |-> "set_data",
                                        by |-> "process_data", data |-> batch])
           /\ sorting' = batch
    /\ dirs' = dirs \cup {ResultDirectory(DefaultDirectory)}
    /\ partial_write' = TRUE
    /\ index' = 1
    /\ pc' = "records"
    /\ UNCHANGED <<path, file_names, headers_by_file, headers, file_processing_data,
                   data_tuple, exhausted, rows, round, log, returned, strings,
                   sorted_strings, sink, realign, well_formed>>

\* the partial write that leaves the record appended last in the buffer
flush_partial_splits_round ==
    /\ pc = "check_flush"
    /\ flush_due(sorting)
    /\ sort_records(SubSeq(sorting, 1, Len(sorting) - 1), 2).ok
    /\ LET file == GeneratorFile(DefaultDirectory)
           batch == sort_records(SubSeq(sorting, 1, Len(sorting) - 1), 2).seq
       IN  /\ fs' = [fs EXCEPT ![file] = TSV_set_data(@, batch)]
           /\ writes' = Append(writes, [file |-> file, op |-> "set_data",
                                        by |-> "process_data", data |-> batch])
    /\ dirs' = dirs \cup {ResultDirectory(DefaultDirectory)}
    /\ sorting' = <<sorting[Len(sorting)]>>
    /\ partial_write' = TRUE
    /\ index' = 1
    /\ pc' = "records"
    /\ UNCHANGED <<path, file_names, headers_by_file, headers, file_processing_data,
                   data_tuple, exhausted, rows, round, log, returned, strings,
                   sorted_strings, sink, realign, well_formed>>

\* the partial write: file_writer = WriteData() writes to the result file of
\* the default base directory, opened with 'a'; the directory is there (the
\* run created it, or it was there before the run)
flush_partial ==
    /\ pc = "check_flush"
    /\ flush_due(sorting)
    /\ sort_records(sorting, 2).ok
    /\ LET file == GeneratorFile(DefaultDirectory)
           batch == sort_records(sorting, 2).seq
       IN  /\ fs' = [fs EXCEPT ![file] = TSV_set_data(@, batch)]
           /\ writes' = Append(writes, [file |-> file, op |-> "set_data",
                                        by |-> "process_data", data |-> batch])
    /\ dirs' = dirs \cup {ResultDirectory(DefaultDirectory)}
    /\ sorting' = <<>>
    /\ partial_write' = TRUE
    /\ index' = 1
    /\ pc' = "records"
    /\ UNCHANGED <<path, file_names, headers_by_file, headers, file_processing_data,
                   data_tuple, exhausted, rows, round, log, returned, strings,
                   sorted_strings, sink, realign, well_formed>>

\* the sort of the partial write compares None with a value: TypeError
flush_sort_raises ==
    /\ pc = "check_flush"
    /\ flush_due(sorting)
    /\ ~sort_records(sorting, 2).ok
    /\ pc' = "raised"
    /\ UNCHANGED <<path, dirs, fs, writes, engine, strings, sorted_strings, sink, realign, well_formed>>

\* the partial write finds no directory '../data/result/': open raises
\* FileNotFoundError (the run has created the result directory of path only)
flush_open_raises ==
    /\ pc = "check_flush"
    /\ flush_due(sorting)
    /\ sort_records(sorting, 2).ok
    /\ ResultDirectory(DefaultDirectory) \notin dirs
    /\ pc' = "raised"
    /\ UNCHANGED <<path, dirs, fs, writes, engine, strings, sorted_strings, sink, realign, well_formed>>

no_flush ==
    /\ pc = "check_flush"
    /\ ~flush_due(sorting)
    /\ index' = 1
    /\ pc' = "records"
    /\ UNCHANGED <<path, dirs, fs, writes, file_names, headers_by_file, headers,
                   file_processing_data, sorting, partial_write, data_tuple,
                   exhausted, rows, round, log, returned, strings, sorted_strings, sink, realign, well_formed>>

\* complete_record with the header_comparison of the file:
\* zip_longest(record, header_comparison) pairs by position
complete_record(record, comparison) ==
    LET n == IF Len(record) > Len(comparison) THEN Len(record) ELSE Len(comparison)
    IN  [i \in 1..n |->
            LET data == IF i <= Len(record) THEN record[i] ELSE None
                is_header == i <= Len(comparison) /\ comparison[i]
            IN  IF is_header THEN data ELSE None]

\* one pass of the inner loop of process_data, on data_tuple[index]
process_record ==
    /\ pc = "records"
    /\ index <= Len(data_tuple)
    /\ LET data == data_tuple[index]
           meta == file_processing_data[file_names[index]]
           ordered == IF meta.rearrangement_needed
                      THEN order_record(data.data, headers_by_file[index])
                      ELSE [ok |-> TRUE, seq |-> data.data]
           completed == complete_record(ordered.seq, meta.header_comparison)
       IN  IF data.none
           THEN /\ pc' = IF index = Len(data_tuple) THEN "next_tuple" ELSE "records"
                /\ index' = index + 1
                /\ UNCHANGED <<sorting, log>>
           ELSE IF ~ordered.ok
           THEN /\ pc' = "raised"
                /\ UNCHANGED <<sorting, log, index>>
           ELSE /\ sorting' = Append(sorting, completed)
                /\ log' = Append(log, [round |-> round, file |-> index,
                                       raw |-> data.data,
                                       reordered |-> meta.rearrangement_needed,
                                       ordered |-> ordered.seq,
                                       completed |-> completed])
                /\ pc' = IF index = Len(data_tuple) THEN "next_tuple" ELSE "records"
                /\ index' = index + 1
    /\ UNCHANGED <<path, dirs, fs, writes, file_names, headers_by_file, headers,
                   file_processing_data, partial_write, data_tuple, exhausted, rows,
                   round, returned, strings, sorted_strings, sink, realign, well_formed>>

\* sorting.sort(key=lambda data: data[0:3]); return partial_write, sorting
final_sort ==
    /\ pc = "final_sort"
    /\ sort_records(sorting, 3).ok
    /\ sorting' = sort_records(sorting, 3).seq
    /\ returned' = [partial_write |-> partial_write, sorting |-> sort_records(sorting, 3).seq]
    /\ pc' = "write_data"
    /\ UNCHANGED <<path, dirs, fs, writes, file_names, headers_by_file, headers,
                   file_processing_data, partial_write, data_tuple, index, exhausted,
                   rows, round, log, strings, sorted_strings, sink, realign, well_formed>>

final_sort_raises ==
    /\ pc = "final_sort"
    /\ ~sort_records(sorting, 3).ok
    /\ pc' = "raised"
    /\ UNCHANGED <<path, dirs, fs, writes, engine, strings, sorted_strings, sink, realign, well_formed>>

\* a final write that opens the file as set_headers does and writes the
\* headers again
write_data_rewrites_headers ==
    /\ pc = "write_data"
    /\ LET file == GeneratorFile(path)
       IN  /\ fs' = [fs EXCEPT ![file] = TSV_set_headers(@, headers)]
           /\ writes' = Append(writes, [file |-> file, op |-> "set_headers",
                                        by |-> "main", data |-> headers])
    /\ pc' = "done"
    /\ UNCHANGED <<path, dirs, engine, strings, sorted_strings, sink, realign, well_formed>>

\* main.process_data: file_writer.write_data(sorted_data), on WriteData(path)
write_data ==
    /\ pc = "write_data"
    /\ LET file == GeneratorFile(path)
       IN  /\ fs' = [fs EXCEPT ![file] = TSV_set_data(@, returned.sorting)]
           /\ writes' = Append(writes, [file |-> file, op |-> "set_data",
                                        by |-> "main", data |-> returned.sorting])
    /\ pc' = "done"
    /\ UNCHANGED <<path, dirs, engine, strings, sorted_strings, sink, realign, well_formed>>

Next ==
    \/ get_all_headers
    \/ sort_headers
    \/ write_headers
    \/ begin_process_data
    \/ next_tuple
    \/ stop_iteration
    \/ flush_partial
    \/ flush_sort_raises
    \/ flush_open_raises
    \/ no_flush
    \/ process_record
    \/ final_sort
    \/ final_sort_raises
    \/ write_data

Spec == Init /\ [][Next]_vars

SpecMalformed == InitMalformed /\ [][Next]_vars


\* ------------------------------------------- sort_alphanumeric on its own
InitSort ==
    /\ pc = "sort_alphanumeric"
    /\ strings \in SeqsUpTo(Names, MaxStrings)
    /\ sorted_strings = <<>>
    /\ path = DefaultDirectory
    /\ dirs = {}
    /\ fs = [f \in OutputFiles |-> <<>>]
    /\ writes = <<>>
    /\ file_names = <<>>
    /\ headers_by_file = <<>>
    /\ headers = <<>>
    /\ file_processing_data = <<>>
    /\ sorting = <<>>
    /\ partial_write = FALSE
    /\ data_tuple = <<>>
    /\ index = 0
    /\ exhausted = <<>>
    /\ rows = <<>>
    /\ round = 0
    /\ log = <<>>
    /\ returned = [partial_write |-> FALSE, sorting |-> <<>>]
    /\ directory = WriterOf(path).directory
    /\ file_name = WriterOf(path).file_name
    /\ extension = WriterOf(path).extension
    /\ formats = WriterOf(path).formats
    /\ file_generator = WriterOf(path).file_generator
    /\ signal = "none"
    /\ printed = <<>>
    /\ raw_record = <<>>
    /\ raw_columns = <<>>
    /\ ordered_record = [ok |-> TRUE, seq |-> <<>>]
    /\ well_formed = TRUE

call_sort_alphanumeric ==
    /\ pc = "sort_alphanumeric"
    /\ sorted_strings' = sort_alphanumeric(strings)
    /\ pc' = "sorted"
    /\ UNCHANGED <<path, dirs, fs, writes, engine, strings, sink, realign, well_formed>>

SpecSort == InitSort /\ [][call_sort_alphanumeric]_vars


\* ------------------------------------------------ order_record on its own
InitOrder ==
    /\ pc = "order_record"
    /\ raw_columns \in SeqsUpTo(Names, MaxColumns) \ {<<>>}
    /\ raw_record \in SeqsUpTo(Cells, MaxColumns) \ {<<>>}
    /\ ordered_record = [ok |-> TRUE, seq |-> <<>>]
    /\ strings = <<>>
    /\ sorted_strings = <<>>
    /\ path = DefaultDirectory
    /\ dirs = {}
    /\ fs = [f \in OutputFiles |-> <<>>]
    /\ writes = <<>>
    /\ file_names = <<>>
    /\ headers_by_file = <<>>
    /\ headers = <<>>
    /\ file_processing_data = <<>>
    /\ sorting = <<>>
    /\ partial_write = FALSE
    /\ data_tuple = <<>>
    /\ index = 0
    /\ exhausted = <<>>
    /\ rows = <<>>
    /\ round = 0
    /\ log = <<>>
    /\ returned = [partial_write |-> FALSE, sorting |-> <<>>]
    /\ directory = WriterOf(path).directory
    /\ file_name = WriterOf(path).file_name
    /\ extension = WriterOf(path).extension
    /\ formats = WriterOf(path).formats
    /\ file_generator = WriterOf(path).file_generator
    /\ signal = "none"
    /\ printed = <<>>
    /\ well_formed = TRUE

call_order_record ==
    /\ pc = "order_record"
    /\ ordered_record' = order_record(raw_record, raw_columns)
    /\ pc' = "ordered"
    /\ UNCHANGED <<path, dirs, fs, writes, engine, strings, sorted_strings, sink,
                   raw_record, raw_columns, well_formed>>

SpecOrder == InitOrder /\ [][call_order_record]_vars


\* ------------------------------------------------- WriteData on its own
InitWriter ==
    /\ pc = "WriteData"
    /\ directory = <<>>
    /\ file_name = ""
    /\ extension = ""
    /\ formats = NewFormats
    /\ file_generator = NoGenerator
    /\ signal = "none"
    /\ printed = <<>>
    /\ path = DefaultDirectory
    /\ dirs = {}
    /\ fs = [f \in OutputFiles |-> <<>>]
    /\ writes = <<>>
    /\ file_names = <<>>
    /\ headers_by_file = <<>>
    /\ headers = <<>>
    /\ file_processing_data = <<>>
    /\ sorting = <<>>
    /\ partial_write = FALSE
    /\ data_tuple = <<>>
    /\ index = 0
    /\ exhausted = <<>>
    /\ rows = <<>>
    /\ round = 0
    /\ log = <<>>
    /\ returned = [partial_write |-> FALSE, sorting |-> <<>>]
    /\ strings = <<>>
    /\ sorted_strings = <<>>
    /\ raw_record = <<>>
    /\ raw_columns = <<>>
    /\ ordered_record = [ok |-> TRUE, seq |-> <<>>]
    /\ well_formed = TRUE

\* WriteData.__init__ up to the call of the factory: self.directory is set,
\* FileGeneratorFactory() is a new factory
WriteData_init ==
    /\ pc = "WriteData"
    /\ \E b \in Directories, f \in FileNames, e \in Extensions :
          /\ directory' = ResultDirectory(b)
          /\ file_name' = f
          /\ extension' = e
    /\ formats' = NewFormats
    /\ pc' = "get_file_generator"
    /\ UNCHANGED <<path, dirs, fs, writes, engine, strings, sorted_strings,
                   file_generator, signal, printed, realign, well_formed>>

\* FileGeneratorFactory.get_file_generator: self._formats[extension] raises
\* KeyError for a key the dict does not hold; ValueError is raised for a
\* key that holds None; otherwise the generator is constructed
get_file_generator ==
    /\ pc = "get_file_generator"
    /\ IF extension \notin DOMAIN formats
       THEN /\ signal' = "KeyError"
            /\ UNCHANGED file_generator
       ELSE IF formats[extension] = None
       THEN /\ signal' = "ValueError"
            /\ UNCHANGED file_generator
       ELSE /\ file_generator' = [class |-> formats[extension],
                                  file |-> directory \o <<file_name, ".", extension>>]
            /\ UNCHANGED signal
    /\ pc' = "except"
    /\ UNCHANGED <<path, dirs, fs, writes, engine, strings, sorted_strings,
                   directory, file_name, extension, formats, printed, realign, well_formed>>

\* the try statement of WriteData.__init__: "except ValueError" prints the
\* message; any other exception leaves __init__ and, no caller handling it,
\* ends the program
WriteData_except ==
    /\ pc = "except"
    /\ IF signal = "none"
       THEN /\ pc' = "constructed"
            /\ UNCHANGED <<signal, printed>>
       ELSE IF signal = "ValueError"
       THEN /\ printed' = Append(printed, <<"Error: ", "The extension '", extension,
                                           "' is not supported.">>)
            /\ signal' = "none"
            /\ pc' = "constructed"
       ELSE /\ pc' = "terminated"
            /\ UNCHANGED <<signal, printed>>
    /\ UNCHANGED <<path, dirs, fs, writes, engine, strings, sorted_strings,
                   directory, file_name, extension, formats, file_generator, realign, well_formed>>

NextWriter ==
    \/ WriteData_init
    \/ get_file_generator
    \/ WriteData_except

SpecWriter == InitWriter /\ [][NextWriter]_vars


\* ================================================================ claims
RECURSIVE Flatten(_)
Flatten(batches) ==
    IF batches = <<>> THEN <<>> ELSE Head(batches) \o Flatten(Tail(batches))

Count(x, s) == Cardinality({i \in 1..Len(s) : s[i] = x})
SameBag(a, b) ==
    /\ Len(a) = Len(b)
    /\ \A i \in 1..Len(a) : Count(a[i], a) = Count(a[i], b)

\* the cells of a padded record at the positions where the bitmap is true
RECURSIVE Keep(_, _)
Keep(padded, bitmap) ==
    IF padded = <<>> \/ bitmap = <<>> THEN <<>>
    ELSE (IF Head(bitmap) THEN <<Head(padded)>> ELSE <<>>)
         \o Keep(Tail(padded), Tail(bitmap))

TrueBits(bitmap) == Cardinality({i \in 1..Len(bitmap) : bitmap[i]})

ComparisonOf(i) == file_processing_data[file_names[i]].header_comparison

\* process_data has returned
Returned == pc \in {"write_data", "done"}

\* the batches handed to the sink by process_data, in order
PartialBatches ==
    LET ix == {k \in 1..Len(writes) : writes[k].by = "process_data"}
        RECURSIVE From(_)
        From(k) == IF k > Len(writes) THEN <<>>
                   ELSE (IF k \in ix THEN <<writes[k].data>> ELSE <<>>) \o From(k + 1)
    IN  From(1)

\* every record given out by process_data, in emission order
Emitted == Flatten(PartialBatches) \o returned.sorting

\* C1: a record completed by complete_record whose length is the number of
\* true bits of the bitmap of its file gives back its cells, in order, at the
\* positions where the bitmap is true, and None at every other position.
C1_CompleteIsRightInverse ==
    \A k \in 1..Len(log) :
        LET e == log[k]
            bitmap == ComparisonOf(e.file)
        IN  Len(e.ordered) = TrueBits(bitmap) =>
               /\ Len(e.completed) = Len(bitmap)
               /\ Keep(e.completed, bitmap) = e.ordered
               /\ \A j \in 1..Len(bitmap) : ~bitmap[j] => e.completed[j] = None

\* C2: when process_data has returned, the partial batches followed by the
\* final batch hold one record per record pulled: as many as the sources had,
\* and as a bag the records that were appended to the buffer.
C2_NoRecordDroppedOrDuplicated ==
    Returned =>
        /\ Len(Emitted) = Sum([i \in 1..Len(rows) |-> Len(rows[i])])
        /\ SameBag(Emitted, [k \in 1..Len(log) |-> log[k].completed])

C2_Witness ==
    /\ pc = "done"
    /\ partial_write
    /\ Len(file_names) = 2
    /\ Len(rows[1]) = 2 /\ Len(rows[2]) = 1
    /\ Len(PartialBatches) = 1 /\ Len(PartialBatches[1]) = 2
    /\ Len(returned.sorting) = 1

\* C3: every record appended to the buffer, pulled with as many cells as its
\* file has columns, has as many cells as the unified schema has columns.
C3_RecordLengthIsSchemaSize ==
    \A k \in 1..Len(log) :
        Len(log[k].raw) = Len(headers_by_file[log[k].file])
        => Len(log[k].completed) = Len(headers)

\* C4: right after sort_headers, headers holds every column name of every
\* file once and no other name, in non-decreasing order of the alphanumeric
\* key (the order sort_alphanumeric gives the union).
C4_UnifiedSchema ==
    pc = "write_headers" =>
        /\ Elems(headers) = UNION {Elems(headers_by_file[i]) : i \in 1..Len(headers_by_file)}
        /\ \A i, j \in 1..Len(headers) : i # j => headers[i] # headers[j]
        /\ \A i, j \in 1..Len(headers) :
              i < j => ListLess(alphanum_key(headers[j]), alphanum_key(headers[i])) # "T"
        /\ sort_alphanumeric(headers) = headers

C4_Witness ==
    /\ pc = "write_headers"
    /\ headers_by_file = << <<D10, d1>>, <<D1, D2, M1>> >>
    /\ headers = <<d1, D1, D2, D10, M1>>


\* C5: the two-source example of the specification: A = [D1,D2,M1] with the
\* row (1,2,x) and B = [D1,M1,M2] with the row (1,y,z) give the schema
\* [D1,D2,M1,M2] and the rows (1,2,x,None), (1,y,None,z), in this order.
C5_ExampleMerge ==
    ( /\ pc \in {"done", "raised"}
      /\ headers_by_file = << <<D1, D2, M1>>, <<D1, M1, M2>> >>
      /\ rows = << << <<"1", "2", "x">> >>, << <<"1", "y", "z">> >> >>
      /\ \A i \in 1..Len(exhausted) : exhausted[i] )
    => /\ pc = "done"
       /\ headers = <<D1, D2, M1, M2>>
       /\ Emitted = << <<"1", "2", "x", None>>, <<"1", "y", None, "z">> >>

\* C6: after a completed run the records given out, partial batches first and
\* the final batch last, are non-decreasing by the sort key (its first two
\* columns already).
C6_OutputSortedAsAWhole ==
    pc = "done" =>
        \A k \in 1..(Len(Emitted) - 1) :
            ListLess(slice_key(Emitted[k + 1], 2), slice_key(Emitted[k], 2)) # "T"

\* records pulled in the rounds before the last round
PulledBeforeLastRound ==
    Sum([i \in 1..Len(rows) |->
            IF Len(rows[i]) = round /\ round > 0 THEN round - 1 ELSE Len(rows[i])])

PulledInAll == Sum([i \in 1..Len(rows) |-> Len(rows[i])])

RECURSIVE Padded(_, _)
Padded(record, bitmap) ==
    IF bitmap = <<>> THEN <<>>
    ELSE IF Head(bitmap)
         THEN <<Head(record)>> \o Padded(Tail(record), Tail(bitmap))
         ELSE <<None>> \o Padded(record, Tail(bitmap))

\* the pulls of a run, round by round and in file order
ExpectedPulls ==
    LET live(r) == {i \in 1..Len(rows) : Len(rows[i]) >= r}
        RECURSIVE InRound(_, _)
        InRound(r, i) ==
            IF i > Len(rows) THEN <<>>
            ELSE (IF i \in live(r) THEN <<[round |-> r, file |-> i, raw |-> rows[i][r]]>>
                  ELSE <<>>) \o InRound(r, i + 1)
        RECURSIVE Rounds(_)
        Rounds(r) == IF live(r) = {} THEN <<>> ELSE InRound(r, 1) \o Rounds(r + 1)
    IN  Rounds(1)

\* C8: there are as many rounds as the longest source has records; a round
\* appends the next record of every source that still has one, in file order,
\* and nothing for an exhausted source; the records of the rounds after a
\* source was exhausted are padded to the unified schema.
C8_RoundRobinExhaustion ==
    Returned =>
        /\ round = Max({0} \cup {Len(rows[i]) : i \in 1..Len(rows)})
        /\ [k \in 1..Len(log) |-> [round |-> log[k].round, file |-> log[k].file,
                                   raw |-> log[k].raw]] = ExpectedPulls
        /\ \A k \in 1..Len(log) :
              ( /\ \E i \in 1..Len(rows) : Len(rows[i]) < log[k].round
                /\ Len(log[k].ordered) = TrueBits(ComparisonOf(log[k].file)) )
              => log[k].completed = Padded(log[k].ordered, ComparisonOf(log[k].file))

\* C8, the rounds alone
RoundsAndPullsAsExpected ==
    Returned =>
        /\ round = Max({0} \cup {Len(rows[i]) : i \in 1..Len(rows)})
        /\ [k \in 1..Len(log) |-> [round |-> log[k].round, file |-> log[k].file,
                                   raw |-> log[k].raw]] = ExpectedPulls

\* the literal prefix and the numeric suffix of a column name
FirstDigit(name) == Min({i \in 1..Len(name) : name[i] \in Digits} \cup {Len(name) + 1})
LiteralPrefix(name) == SubSeq(name, 1, FirstDigit(name) - 1)
NumericSuffix(name) == IntOf(SubSeq(name, FirstDigit(name), Len(name)))
UpperOf(s) == [i \in 1..Len(s) |-> UpperChar(s[i])]

\* C9: sort_alphanumeric gives a permutation of its argument in which, of two
\* names with the same prefix (letter case aside), the one with the smaller
\* numeric suffix comes first; [D1,D2,D10,D9] gives [D1,D2,D9,D10].
C9_NumericSuffixOrder ==
    pc = "sorted" =>
        /\ SameBag(strings, sorted_strings)
        /\ \A i, j \in 1..Len(sorted_strings) :
              ( /\ UpperOf(LiteralPrefix(sorted_strings[i])) = UpperOf(LiteralPrefix(sorted_strings[j]))
                /\ NumericSuffix(sorted_strings[i]) < NumericSuffix(sorted_strings[j]) )
              => i < j
        /\ strings = <<D1, D2, D10, D9>> => sorted_strings = <<D1, D2, D9, D10>>

C9_Witness ==
    /\ pc = "sorted"
    /\ strings = <<D1, D2, D10, D9>>
    /\ sorted_strings = <<D1, D2, D9, D10>>

\* a column list in non-decreasing order of the alphanumeric key
KeySorted(columns) ==
    \A i, j \in 1..Len(columns) :
        i < j => ListLess(alphanum_key(columns[j]), alphanum_key(columns[i])) # "T"

\* the state that follows the append of a record by process_record
JustAppended ==
    /\ pc \in {"records", "next_tuple"}
    /\ log # <<>>
    /\ log[Len(log)].round = round
    /\ log[Len(log)].file = index - 1

\* C10: a file whose columns are already in sorted order has the flag
\* rearrangement_needed false (looked at when the flags have been set), none
\* of its records goes through order_record, and order_record would give the
\* record, of as many cells as the file has columns, back unchanged (looked
\* at when the record has been appended).
C10_SortedSourceIsNotRealigned ==
    /\ (pc = "next_tuple" /\ round = 0) =>
          \A i \in 1..Len(file_names) :
              KeySorted(headers_by_file[i])
              => ~file_processing_data[file_names[i]].rearrangement_needed
    /\ JustAppended =>
          LET e == log[Len(log)]
          IN  KeySorted(headers_by_file[e.file]) =>
                 /\ ~e.reordered
                 /\ Len(e.raw) = Len(headers_by_file[e.file])
                    => order_record(e.raw, headers_by_file[e.file]) = [ok |-> TRUE, seq |-> e.raw]

C10_Witness ==
    /\ pc = "next_tuple"
    /\ headers_by_file = << <<D1, M1, M2>>, <<D10, d1>> >>
    /\ Len(log) = 2
    /\ ~log[1].reordered /\ log[1].file = 1 /\ log[1].ordered = log[1].raw
    /\ log[2].reordered /\ log[2].file = 2 /\ log[2].ordered # log[2].raw

\* C11: every write of a run, the header, each partial batch and the final
\* batch, goes to the result file under the directory chosen for the run.
C11_EveryWriteToTheChosenResultFile ==
    \A k \in 1..Len(writes) : writes[k].file = GeneratorFile(path)

\* the text of a record: every cell, nothing for None, then a tab
RowText(record) ==
    Flatten([i \in 1..Len(record) |->
                (IF record[i] = None THEN <<>> ELSE <<record[i]>>) \o <<Tab>>])

\* the text of a batch: the records, a newline before each one but the first
BatchText(batch) ==
    Flatten([i \in 1..Len(batch) |->
                (IF i > 1 THEN <<Newline>> ELSE <<>>) \o RowText(batch[i])])

\* the step is a call of set_data
IsSetData ==
    /\ Len(writes') = Len(writes) + 1
    /\ writes'[Len(writes')].op = "set_data"

\* C12: a call of set_data leaves the content the file had and appends the
\* text of the batch: each cell followed by a tab (nothing but the tab for
\* None), a newline between two records, none after the last record; the
\* other file is not touched.
C12_SetDataAppendsTabbedRecords ==
    [][IsSetData =>
          LET w == writes'[Len(writes')]
          IN  /\ fs'[w.file] = fs[w.file] \o BatchText(w.data)
              /\ \A f \in OutputFiles \ {w.file} : fs'[f] = fs[f]]_vars

C12_Witness ==
    /\ pc = "done"
    /\ Len(returned.sorting) = 2
    /\ returned.sorting[1] = <<"1", "2", "x", None>>
    /\ fs[GeneratorFile(path)] =
          <<"D", "1", Tab, "D", "2", Tab, "M", "1", Tab, "M", "2", Newline,
            "1", Tab, "2", Tab, "x", Tab, Tab, Newline,
            "1", Tab, "y", Tab, "z", Tab, Tab>>

\* C13: asking WriteData for an extension that has no registered generator
\* makes get_file_generator raise ValueError, which WriteData catches and
\* reports with a printed message; the program is not ended by it.
C13_UnsupportedExtensionIsReported ==
    (pc \in {"except", "constructed", "terminated"} /\ extension \notin DOMAIN formats)
    => /\ pc = "except" => signal = "ValueError"
       /\ pc # "terminated"
       /\ pc = "constructed" => (signal = "none" /\ printed # <<>>)

\* C14: a record is appended to the buffer only when it is well formed: as
\* many raw cells as its file has columns, and as many realigned cells as the
\* bitmap of its file has true bits; a record that is not stops the run.
C14_MalformedRecordHaltsRun ==
    \A k \in 1..Len(log) :
        /\ Len(log[k].raw) = Len(headers_by_file[log[k].file])
        /\ Len(log[k].ordered) = TrueBits(ComparisonOf(log[k].file))

\* C15: the schema sort_headers gives is the one every other run over the
\* same column lists, in the same file order, gives: whatever order the set
\* of names is listed in, names with equal keys included.
C15_SchemaUnificationIsDeterministic ==
    pc = "write_headers" =>
        \A l \in ListsOf(set_headers(headers_by_file)) :
            sort_alphanumeric(l) = headers

Distinct(s) == \A i, j \in 1..Len(s) : i # j => s[i] # s[j]
IndexIn(x, s) == CHOOSE i \in 1..Len(s) : s[i] = x

\* C16: for a record with as many cells as the file has columns, the column
\* names distinct, order_record gives a record of the same length in which
\* the cell of column c is at the index c has in sort_alphanumeric(columns);
\* as a bag it is the record given.
C16_OrderRecordIsThePermutationOfTheSort ==
    ( /\ pc = "ordered"
      /\ Len(raw_record) = Len(raw_columns)
      /\ Distinct(raw_columns) )
    => /\ ordered_record.ok
       /\ Len(ordered_record.seq) = Len(raw_record)
       /\ \A c \in 1..Len(raw_columns) :
             ordered_record.seq[IndexIn(raw_columns[c], sort_alphanumeric(raw_columns))]
                = raw_record[c]
       /\ SameBag(ordered_record.seq, raw_record)

C16_Witness ==
    /\ pc = "ordered"
    /\ raw_columns = <<D10, d1, D1>>
    /\ raw_record = <<"2", "1", "2">>
    /\ ordered_record = [ok |-> TRUE, seq |-> <<"1", "2", "2">>]

\* the number of records in the partial batches before batch b
BatchOffset(b) == Sum([k \in 1..(b - 1) |-> Len(PartialBatches[k])])

\* the records of partial batch b in the order they were appended
BatchPulls(b) ==
    [k \in 1..Len(PartialBatches[b]) |-> log[BatchOffset(b) + k].completed]

FinalPulls ==
    LET o == BatchOffset(Len(PartialBatches) + 1)
    IN  [k \in 1..(Len(log) - o) |-> log[o + k].completed]

\* batch is pulls sorted by the first k cells, records with equal keys in
\* the order of pulls
StablySorted(batch, pulls, k) ==
    /\ SameBag(batch, pulls)
    /\ \A i \in 1..(Len(batch) - 1) :
          ListLess(slice_key(batch[i + 1], k), slice_key(batch[i], k)) = "F"
    /\ \A j \in 1..Len(pulls) :
          LET SameKey(r) == slice_key(r, k) = slice_key(pulls[j], k)
          IN  SelectSeq(batch, SameKey) = SelectSeq(pulls, SameKey)

\* C18: every partial batch is the records appended for it, non-decreasing
\* by their first two cells, and the batch returned is the records appended
\* after the last partial batch, non-decreasing by their first three cells;
\* records with equal keys are in the order they were pulled.  The partial
\* batches are looked at when the threshold test is over, the batch returned
\* when process_data has returned.
C18_BatchesStablySorted ==
    /\ (pc = "records" /\ index = 1) =>
          \A b \in 1..Len(PartialBatches) :
              StablySorted(PartialBatches[b], BatchPulls(b), 2)
    /\ Returned => StablySorted(returned.sorting, FinalPulls, 3)

C18_Witness ==
    /\ pc = "done"
    /\ Len(PartialBatches) = 1
    /\ PartialBatches[1] = << <<"1", None, "z", None>>, <<"1", None, "x", None>> >>
    /\ log[1].completed = <<"1", None, "z", None>>
    /\ Len(returned.sorting) = 1

\* the sources that gave a record in round r
LiveIn(r) == Cardinality({i \in 1..Len(rows) : Len(rows[i]) >= r})

\* the round whose records were appended last: the tuple of the current
\* round is pulled before the threshold test
BodyRound == IF pc = "check_flush" THEN round - 1 ELSE round

\* C19: the buffer never holds more than the threshold plus one record for
\* each source that was live in the round appended last, and at the start of
\* the body of a round, after the threshold test, never more than the
\* threshold.
C19_BufferBoundedByThresholdPlusSources ==
    /\ Len(sorting) <= FlushThreshold + LiveIn(BodyRound)
    /\ LiveIn(BodyRound) <= Len(file_names)
    /\ (pc = "records" /\ index = 1) => Len(sorting) <= FlushThreshold

C19_Witness ==
    /\ pc = "check_flush"
    /\ round = 3
    /\ LiveIn(BodyRound) = 1
    /\ Len(sorting) = FlushThreshold + LiveIn(BodyRound)
    /\ flush_due(sorting)

\* C20: nothing is pulled or written before the header; the first write of a
\* run is the header, with the schema sort_headers computed, which does not
\* change afterwards; every later write appends a batch; the batch written by
\* main is the last write, made once, with what process_data returned.
C20_SinkOperationsInOrder ==
    /\ pc \in {"get_all_headers", "sort_headers", "write_headers"}
          => (writes = <<>> /\ rows = <<>> /\ log = <<>>)
    /\ pc \notin {"get_all_headers", "sort_headers", "write_headers"}
          => /\ writes # <<>>
             /\ writes[1].op = "set_headers" /\ writes[1].by = "main"
             /\ writes[1].data = headers
    /\ \A k \in 2..Len(writes) :
          /\ writes[k].op = "set_data"
          /\ writes[k].by = "main" => (k = Len(writes) /\ pc = "done")
    /\ pc = "done"
          => /\ Len(writes) >= 2
             /\ writes[Len(writes)].by = "main"
             /\ writes[Len(writes)].data = returned.sorting

C20_Witness ==
    /\ pc = "done"
    /\ Len(writes) = 3
    /\ writes[1].op = "set_headers" /\ writes[1].data = headers
    /\ writes[2].by = "process_data" /\ writes[2].op = "set_data"
    /\ writes[3].by = "main" /\ writes[3].op = "set_data"
    /\ writes[3].data # <<>>

\* C21: on files whose lines all have as many cells as the header, the run
\* never stops with an exception: the sort of a partial write and the final
\* sort succeed, also when some buffered records hold None among their
\* first cells and others a value, and process_data returns its batch.
C21_WellFormedRunReturns ==
    /\ (pc = "check_flush" /\ flush_due(sorting)) => sort_records(sorting, 2).ok
    /\ pc = "final_sort" => sort_records(sorting, 3).ok
    /\ pc # "raised"

\* the lines of a text: its pieces between newlines, a last piece without
\* newline included when it is not empty
RECURSIVE LinesFrom(_, _, _)
LinesFrom(text, i, line) ==
    IF i > Len(text) THEN (IF line = <<>> THEN <<>> ELSE <<line>>)
    ELSE IF text[i] = Newline THEN <<line>> \o LinesFrom(text, i + 1, <<>>)
    ELSE LinesFrom(text, i + 1, Append(line, text[i]))

Lines(text) == LinesFrom(text, 1, <<>>)

\* what was written to file f, in order: the headers, the records
HeadersWrittenTo(f) ==
    LET RECURSIVE From(_)
        From(k) == IF k > Len(writes) THEN <<>>
                   ELSE (IF writes[k].file = f /\ writes[k].op = "set_headers"
                         THEN <<writes[k].data>> ELSE <<>>) \o From(k + 1)
    IN  From(1)

RecordsWrittenTo(f) ==
    LET RECURSIVE From(_)
        From(k) == IF k > Len(writes) THEN <<>>
                   ELSE (IF writes[k].file = f /\ writes[k].op = "set_data"
                         THEN writes[k].data ELSE <<>>) \o From(k + 1)
    IN  From(1)

\* C22: after a completed run a file of the run holds the header line, if
\* the header was written to it, and then one line for each record written
\* to it, batch after batch: the last record of a batch and the first
\* record of the next batch are on two lines.
C22_OneLinePerRecord ==
    pc = "done" =>
        \A f \in OutputFiles :
            Lines(fs[f]) =
                [k \in 1..Len(HeadersWrittenTo(f)) |-> join(Tab, HeadersWrittenTo(f)[k])]
                \o [k \in 1..Len(RecordsWrittenTo(f)) |-> RowText(RecordsWrittenTo(f)[k])]

====
